---- MODULE Spec2Model ----
(***************************************************************************)
(* EglPreview (preview/egl_preview.cpp): the X/EGL preview window.         *)
(*                                                                         *)
(* The model covers the object's fields, the part of the EGL/GL driver     *)
(* state its calls read and write (which thread the rendering context is   *)
(* current on, the texture objects, the two texture bindings), and one     *)
(* action per public operation: Show, SetOverlay, Reset and the            *)
(* destructor.  `last` records the most recent call with the EGL/GL calls  *)
(* and callbacks it issued, in order.                                      *)
(***************************************************************************)
EXTENDS Integers, Sequences, FiniteSets, TLC

\* ---------------------------------------------------------------- bounds
\* frame handles (file descriptors) are 0..MaxHandle
MaxHandle == 1
\* calls made on one EglPreview object
MaxCalls == 3
\* texture names are 1..MaxName
MaxName == 4

\* GStreamOutput: frames are 1..MaxSize bytes long
MaxSize == 2
\* GStreamOutput: outputBuffer calls made on one object
MaxFrames == 2

\* strides and heights of the frames of the import specification are 1..MaxDim
MaxDim == 4

\* ------------------------------------------------------- program constants
\* Buffer() : fd(-1), last_fd_(-1)
NoFd == -1
\* default window size (makeWindow)
width_ == 1024
height_ == 768

Handles == 0..MaxHandle
Names == 0..MaxName
\* values an uninitialised GLuint is read as: no texture, or a texture name
Garbage == {0, 1}
\* non-null overlay pixel payloads handed to SetOverlay
Pixels == {1}

DisplayThread == "display"
OtherThread == "other"
NoThread == "none"
Threads == {DisplayThread, OtherThread}
\* threads SetOverlay and the destructor are called on
CallerThreads == {DisplayThread}

\* StreamInfo values handed to Show
Infos ==
  { [width |-> 640, height |-> 480, stride |-> 640, colour_space |-> "Smpte170m"],
    [width |-> 1280, height |-> 720, stride |-> 1280, colour_space |-> "Rec709"] }
NoInfo == [width |-> 0, height |-> 0, stride |-> 0, colour_space |-> "none"]

\* (width, height) pairs handed to SetOverlay
OverlaySizes == { <<160, 120>>, <<256, 192>> }

\* which external call of makeBuffer fails in a Show, if any
Failures == {"none", "eglMakeCurrent", "gl_setup", "setup_overlay", "eglCreateImageKHR"}

VARIABLES
  buffers_,          \* std::map<int, Buffer>: handle -> [fd, info, texture]
  last_fd_,          \* the handle shown last, NoFd when there is none
  first_time_,       \* GL setup still to be done
  overlay_present_,  \* the overlay quad is drawn by Show
  overlay_texture_,  \* GLuint, uninitialised until setup_overlay
  verts_,            \* float verts_[8]: half-extents [w, h] of the video quad
  gl_setup_verts,    \* gl_setup's function-static verts[], NoVerts until initialised
  ctx_owner,         \* thread the EGL context is current on, or NoThread
  ctx_destroyed,     \* eglDestroyContext has been called
  gl,                \* GL objects: [textures, bound2d, boundExt, reserved]
  destroyed,         \* ~EglPreview has run
  last,              \* the most recent call: [op, t, fd, info, result, ev]
  shown,             \* handles of the Show calls completed since the last Reset
  released,          \* handles passed to done_callback_ since the last Reset
  prior,             \* handles that were registered when some Reset ran
  overlay_req,       \* arguments of the most recent SetOverlay, pix = -1 before any
  attempted,         \* handles passed to Show since the last Reset
  discarded,         \* the value of last_fd_ the last Reset overwrote
  overlay_made,      \* texture names setup_overlay's glGenTextures has returned
  calls,             \* number of calls made so far
  gst_queue,         \* GStreamOutput: payloads of the buffers appsrc has queued
  gst_held,          \* GStreamOutput: buffer references outputBuffer took and kept
  gst_last,          \* GStreamOutput: the most recent outputBuffer call
  gst_calls          \* GStreamOutput: number of outputBuffer calls made so far

vars == << buffers_, last_fd_, first_time_, overlay_present_, overlay_texture_,
           verts_, gl_setup_verts,
           ctx_owner, ctx_destroyed, gl, destroyed,
           last, shown, released, prior, overlay_req, attempted, discarded,
           overlay_made, calls, gst_queue, gst_held, gst_last, gst_calls >>

\* the variables of GStreamOutput
gstVars == << gst_queue, gst_held, gst_last, gst_calls >>

\* ------------------------------------------------------------ GL objects
\* one issued EGL/GL call or callback; cur: the context was current on the caller
Ev(op, cur, a, b, c) == [op |-> op, cur |-> cur, a |-> a, b |-> b, c |-> c]

Unused == [kind |-> "unused", fd |-> NoFd, pix |-> 0, w |-> 0, h |-> 0]
Blank2D == [kind |-> "2d", fd |-> NoFd, pix |-> 0, w |-> 0, h |-> 0]
BlankExt == [kind |-> "ext", fd |-> NoFd, pix |-> 0, w |-> 0, h |-> 0]

\* names glGenTextures can return: not reserved and not in use
FreeNames(g) == { n \in Names \ {0} : n \notin g.reserved /\ g.textures[n].kind = "unused" }

\* glGenTextures: the name it returns (the lowest unused one), and the state
\* after it; the name stays reserved until it is bound or deleted
GenName(g) == CHOOSE n \in FreeNames(g) : \A m \in FreeNames(g) : n <= m
GenTexture(g) == [g EXCEPT !.reserved = @ \cup {GenName(g)}]

\* glBindTexture(target, n): name 0 is the target's default texture, an unused
\* name becomes a new object of the target's kind, a name of the other kind is
\* GL_INVALID_OPERATION and leaves the binding as it was
BindTexture(g, target, n) ==
  LET bind(h) == IF target = "2d" THEN [h EXCEPT !.bound2d = n]
                                  ELSE [h EXCEPT !.boundExt = n]
  IN  IF n = 0 THEN bind(g)
      ELSE IF n \notin Names THEN g
      ELSE IF g.textures[n].kind = "unused"
        THEN bind([g EXCEPT !.textures[n] = IF target = "2d" THEN Blank2D ELSE BlankExt,
                            !.reserved = @ \ {n}])
      ELSE IF g.textures[n].kind = target THEN bind(g)
      ELSE g

\* glTexImage2D(GL_TEXTURE_2D, ...) on the bound 2-D texture
TexImage2D(g, pix, w, h) ==
  [g EXCEPT !.textures[g.bound2d] = [kind |-> "2d", fd |-> NoFd, pix |-> pix, w |-> w, h |-> h]]

\* glEGLImageTargetTexture2DOES on the bound external texture
ImageTargetTexture(g, fd, info) ==
  IF g.boundExt = 0 THEN g
  ELSE [g EXCEPT !.textures[g.boundExt] =
          [kind |-> "ext", fd |-> fd, pix |-> 0, w |-> 0, h |-> 0]]

\* glDeleteTextures(1, &n): 0 and unused names are ignored; a deleted texture
\* that is bound reverts the binding to 0
DeleteTexture(g, n) ==
  IF n = 0 \/ n \notin Names THEN g
  ELSE IF g.textures[n].kind = "unused" THEN [g EXCEPT !.reserved = @ \ {n}]
  ELSE [g EXCEPT !.textures[n] = Unused,
                 !.bound2d = IF @ = n THEN 0 ELSE @,
                 !.boundExt = IF @ = n THEN 0 ELSE @]

\* the texture a draw samples through the external / 2-D target
SampledExt(g) == IF g.boundExt = 0 THEN BlankExt ELSE g.textures[g.boundExt]
Sampled2D(g) == g.textures[g.bound2d]

\* live texture objects holding an imported frame
ImportedTextures(g) == { n \in Names \ {0} : g.textures[n].kind = "ext" }

\* --------------------------------------------------------------- helpers
\* context current on thread t
Current(owner, t) == owner = t /\ ~ctx_destroyed

\* eglMakeCurrent(display, surface, surface, context) by thread t: EGL_BAD_ACCESS
\* when the context is current on another thread
MakeCurrentOk(owner, t) == ~ctx_destroyed /\ owner \in {NoThread, t}

\* faulty variant: the sentinel test written as buffer.fd <= 0
IsRegisteredPositive(bufs, fd) == fd \in DOMAIN bufs /\ bufs[fd].fd > 0

\* Show: Buffer &buffer = buffers_[fd]; if (buffer.fd == -1) makeBuffer(...)
IsRegistered(bufs, fd) == fd \in DOMAIN bufs /\ bufs[fd].fd # NoFd

\* buffers_[fd]: the entry, default-constructed (fd(-1), texture uninitialised)
\* when the key is new
Lookup(bufs, fd, garb) ==
  IF fd \in DOMAIN bufs THEN bufs[fd]
  ELSE [fd |-> NoFd, info |-> NoInfo, texture |-> garb]

\* buffers_ with the entry of key fd set to e
Store(bufs, fd, e) == [k \in DOMAIN bufs \cup {fd} |-> IF k = fd THEN e ELSE bufs[k]]

\* faulty variant: if (last_fd_ > 0) ...
DoneCallbacksSkipZero(lastfd, fd) == IF lastfd > 0 THEN << lastfd >> ELSE << >>

\* faulty variant: if (last_fd_ >= 0 && last_fd_ != fd) ...
DoneCallbacksOther(lastfd, fd) == IF lastfd >= 0 /\ lastfd # fd THEN << lastfd >> ELSE << >>

\* faulty variant: ... done_callback_(fd)
DoneCallbacksCurrent(lastfd, fd) == IF lastfd >= 0 THEN << fd >> ELSE << >>

\* Show: if (last_fd_ >= 0) done_callback_(last_fd_);
DoneCallbacks(lastfd, fd) == IF lastfd >= 0 THEN << lastfd >> ELSE << >>

\* Show: last_fd_ = fd;
NextLastFd(lastfd, fd) == fd

\* faulty variant: the exception is caught and Show carries on
PropagatesNever(threw) == FALSE

\* Show: makeBuffer's exception leaves Show (there is no try block)
Propagates(threw) == threw

\* faulty variant: if (!success) return;
ContinuesAfterSwapOnSuccess(success) == success

\* Show: the result of eglSwapBuffers is not looked at ([[maybe_unused]])
ContinuesAfterSwap(success) == TRUE

\* Show: if (overlay_present_) { ... glDrawArrays ... }
OverlayDrawn(present) == present

\* faulty variant: the map is not cleared
ClearedBuffersKept(bufs) == bufs

\* Reset: buffers_.clear();
ClearedBuffers(bufs) == [k \in {} |-> Lookup(bufs, k, 0)]

\* faulty variant: last_fd_ is left as it is
ResetLastFdKept(lastfd) == lastfd

\* Reset: last_fd_ = -1;
ResetLastFd(lastfd) == NoFd

\* faulty variant: the flag is never cleared
OverlayFlagSticky(buf) == TRUE

\* SetOverlay: overlay_present_ after the call (buf = 0 is the null pointer)
OverlayFlag(buf) == buf # 0

\* -------------------------------------------------------------- gl_setup
\* floats are held in units of 1/Scale; the frame sizes of Infos and the window
\* size give quotients that are exact both in binary floating point and in
\* these units
Scale == 10000
Quotient(a, b) == (a * Scale) \div b

\* verts_ and gl_setup's verts[] before anything is stored in them
NoVerts == [w |-> 0, h |-> 0]

\* gl_setup: w_factor = width / (float)window_width; h_factor likewise;
\* max_dimension = std::max(w_factor, h_factor); both divided by it
Factors(width, height, window_width, window_height) ==
  LET w_factor == Quotient(width, window_width)
      h_factor == Quotient(height, window_height)
      max_dimension == IF w_factor >= h_factor THEN w_factor ELSE h_factor
  IN  [w |-> Quotient(w_factor, max_dimension), h |-> Quotient(h_factor, max_dimension)]

\* gl_setup: const static float verts[] = { -w_factor, -h_factor, ... }; the
\* initialiser of a function-local static runs the first time control passes
\* through the declaration, later calls keep the stored values
StaticVerts(stored, f) == IF stored = NoVerts THEN f ELSE stored

\* gl_setup(width, height, window_width, window_height) once the shaders are
\* built: the factors written into the vertex shader, verts[] and verts_
gl_setup(width, height, window_width, window_height) ==
  LET f == Factors(width, height, window_width, window_height)
      sv == StaticVerts(gl_setup_verts, f)
  IN  [factors |-> f, static |-> sv, verts |-> sv]

\* ------------------------------------------------- eglCreateImageKHR attributes
\* faulty variant: the Sycc branch is missing
ColourSpaceInfoNoSycc(cs) ==
  [encoding |-> IF cs = "Rec709" THEN "EGL_ITU_REC709_EXT" ELSE "EGL_ITU_REC601_EXT",
   range |-> "EGL_YUV_NARROW_RANGE_EXT"]

\* get_colour_space_info(cs, encoding, range); cs = "none" is std::nullopt.
\* The final else only logs.
get_colour_space_info(cs) ==
  LET encoding == "EGL_ITU_REC601_EXT"
      range == "EGL_YUV_NARROW_RANGE_EXT"
  IN  IF cs = "Sycc" THEN [encoding |-> encoding, range |-> "EGL_YUV_FULL_RANGE_EXT"]
      ELSE IF cs = "Smpte170m" THEN [encoding |-> encoding, range |-> range]
      ELSE IF cs = "Rec709" THEN [encoding |-> "EGL_ITU_REC709_EXT", range |-> range]
      ELSE [encoding |-> encoding, range |-> range]

\* faulty variant: the second chroma plane placed a quarter of the luma size on
Plane2OffsetQuarter(stride, height) == stride * height + (stride * height) \div 4

\* makeBuffer: EGL_DMA_BUF_PLANE2_OFFSET_EXT
Plane2Offset(stride, height) == stride * height + (stride \div 2) * (height \div 2)

\* makeBuffer: EGLint attribs[] = { ... }
Attribs(fd, info) ==
  LET cs == get_colour_space_info(info.colour_space)
  IN  [width |-> info.width, height |-> info.height, fourcc |-> "DRM_FORMAT_YUV420",
       plane |-> << [fd |-> fd, offset |-> 0, pitch |-> info.stride],
                    [fd |-> fd, offset |-> info.stride * info.height,
                     pitch |-> info.stride \div 2],
                    [fd |-> fd, offset |-> Plane2Offset(info.stride, info.height),
                     pitch |-> info.stride \div 2] >>,
       encoding |-> cs.encoding, range |-> cs.range]

\* faulty variant: the setup is run by every makeBuffer
NeedsSetupAlways(first) == TRUE

\* makeBuffer: if (first_time_) { ... first_time_ = false; }
NeedsSetup(first) == first

\* ------------------------------------------------------------ makeBuffer
\* The outcome of makeBuffer(fd, size, info, buffer) on the display thread:
\* fail names the external call that fails (if it is reached), garb is the
\* value an uninitialised Buffer::texture reads as.
makeBuffer(fd, info, fail, garb) ==
  LET t == DisplayThread
      e0 == Lookup(buffers_, fd, garb)
      r0 == [threw |-> FALSE, entry |-> e0, first_time |-> first_time_,
             overlay_texture |-> overlay_texture_, owner |-> ctx_owner, gl |-> gl,
             verts |-> verts_, static |-> gl_setup_verts, ev |-> << >>]
      gs == gl_setup(info.width, info.height, width_, height_)
      \* if (first_time_) { eglMakeCurrent; gl_setup; setup_overlay; first_time_ = false; }
      mcOk == fail # "eglMakeCurrent" /\ MakeCurrentOk(ctx_owner, t)
      oname == GenName(gl)
      ogl == TexImage2D(BindTexture(GenTexture(gl), "2d", oname), 0, width_ \div 4, height_ \div 4)
      r1 == IF ~NeedsSetup(first_time_) THEN r0
            ELSE IF ~mcOk
              THEN [r0 EXCEPT !.threw = TRUE,
                              !.ev = << Ev("eglMakeCurrent", FALSE, 0, 0, 0) >>]
            ELSE IF fail = "gl_setup"
              THEN [r0 EXCEPT !.threw = TRUE, !.owner = t,
                              !.ev = << Ev("eglMakeCurrent", TRUE, 1, 0, 0),
                                        Ev("gl_setup", TRUE, 0, 0, 0) >>]
            ELSE IF fail = "setup_overlay"
              THEN [r0 EXCEPT !.threw = TRUE, !.owner = t,
                              !.verts = gs.verts, !.static = gs.static,
                              !.ev = << Ev("eglMakeCurrent", TRUE, 1, 0, 0),
                                        Ev("gl_setup", TRUE, 1, gs.factors.w, gs.factors.h),
                                        Ev("setup_overlay", TRUE, 0, 0, 0) >>]
            ELSE [r0 EXCEPT !.owner = t,
                            !.verts = gs.verts, !.static = gs.static,
                            !.overlay_texture = oname, !.gl = ogl, !.first_time = FALSE,
                            !.ev = << Ev("eglMakeCurrent", TRUE, 1, 0, 0),
                                      Ev("gl_setup", TRUE, 1, gs.factors.w, gs.factors.h),
                                      Ev("setup_overlay", TRUE, 1, 0, 0),
                                      Ev("glGenTextures", TRUE, oname, 1, 0),
                                      Ev("glBindTexture", TRUE, oname, 1, 0),
                                      Ev("glTexImage2D", TRUE, 0, width_ \div 4, height_ \div 4) >>]
      \* buffer.fd = fd; buffer.info = info; eglCreateImageKHR; glGenTextures; ...
      cur == Current(r1.owner, t)
      e1 == [e0 EXCEPT !.fd = fd, !.info = info]
      name == GenName(r1.gl)
      igl == ImageTargetTexture(BindTexture(GenTexture(r1.gl), "ext", name), fd, info)
  IN  IF r1.threw THEN r1
      ELSE IF fail = "eglCreateImageKHR"
        THEN [r1 EXCEPT !.threw = TRUE, !.entry = e1,
                        !.ev = @ \o << Ev("eglCreateImageKHR", cur, fd, 0, Attribs(fd, info)) >>]
      ELSE IF ~cur
        THEN [r1 EXCEPT !.entry = e1,
                        !.ev = @ \o << Ev("eglCreateImageKHR", cur, fd, 1, Attribs(fd, info)),
                                       Ev("glGenTextures", cur, e1.texture, 0, 0),
                                       Ev("glBindTexture", cur, e1.texture, 0, 0),
                                       Ev("glEGLImageTargetTexture2DOES", cur, e1.texture, fd, 0) >>]
      ELSE [r1 EXCEPT !.entry = [e1 EXCEPT !.texture = name], !.gl = igl,
                      !.ev = @ \o << Ev("eglCreateImageKHR", cur, fd, 1, Attribs(fd, info)),
                                     Ev("glGenTextures", cur, name, 0, 0),
                                     Ev("glBindTexture", cur, name, 0, 0),
                                     Ev("glEGLImageTargetTexture2DOES", cur, name, fd, 0) >>]

\* ------------------------------------------------------------------ Show
\* EglPreview::Show(fd, span, info) on the display thread.  fail and swap_ok
\* are the outcomes of the external calls, garb the value of an uninitialised
\* Buffer::texture.
Show(fd, info, fail, swap_ok, garb) ==
  LET t == DisplayThread
      hit == IsRegistered(buffers_, fd)
  IN
  \* mb: the state makeBuffer leaves, the current one when it is not called
  \E mb \in { IF hit
               THEN [threw |-> FALSE, entry |-> buffers_[fd], first_time |-> first_time_,
                     overlay_texture |-> overlay_texture_, owner |-> ctx_owner, gl |-> gl,
                     verts |-> verts_, static |-> gl_setup_verts, ev |-> << >>]
               ELSE makeBuffer(fd, info, fail, garb) } :
  LET cur == Current(mb.owner, t)
      \* glUseProgram(prog_); glVertexAttribPointer(0, ..., verts_); glClear;
      \* glBindTexture(EXTERNAL, buffer.texture); glDrawArrays
      g1 == IF cur THEN BindTexture(mb.gl, "ext", mb.entry.texture) ELSE mb.gl
      evVideo == << Ev("glUseProgram", cur, 0, 0, 0),
                    Ev("glVertexAttribPointer", cur, mb.verts.w, mb.verts.h, 0),
                    Ev("glClear", cur, 0, 0, 0),
                    Ev("glBindTexture", cur, mb.entry.texture, 0, 0),
                    Ev("drawVideo", cur, g1.boundExt, SampledExt(g1).fd, 0) >>
      \* if (overlay_present_) { glUseProgram(overlay_prog_); glBindTexture(2D, overlay_texture_); glDrawArrays }
      ov == OverlayDrawn(overlay_present_)
      g2 == IF ov /\ cur THEN BindTexture(g1, "2d", mb.overlay_texture) ELSE g1
      evOverlay == IF ov
                     THEN << Ev("glUseProgram", cur, 1, 0, 0),
                             Ev("glBindTexture", cur, mb.overlay_texture, 1, 0),
                             Ev("drawOverlay", cur, Sampled2D(g2).pix, Sampled2D(g2).w,
                                Sampled2D(g2).h) >>
                     ELSE << >>
      \* eglSwapBuffers; if (last_fd_ >= 0) done_callback_(last_fd_); last_fd_ = fd;
      swapped == swap_ok /\ cur
      evSwap == << Ev("eglSwapBuffers", cur, IF swapped THEN 1 ELSE 0, 0, 0) >>
      rel == IF ContinuesAfterSwap(swapped) THEN DoneCallbacks(last_fd_, fd) ELSE << >>
      evRel == [i \in 1..Len(rel) |-> Ev("done_callback_", cur, rel[i], 0, 0)]
  IN  /\ ~destroyed
      /\ calls < MaxCalls
      /\ calls' = calls + 1
      /\ UNCHANGED gstVars
      /\ hit \/ Cardinality(FreeNames(gl)) >= 2
      /\ buffers_' = Store(buffers_, fd, mb.entry)
      /\ first_time_' = mb.first_time
      /\ overlay_texture_' = mb.overlay_texture
      /\ verts_' = mb.verts
      /\ gl_setup_verts' = mb.static
      /\ ctx_owner' = mb.owner
      /\ attempted' = attempted \cup {fd}
      /\ overlay_made' = overlay_made \cup
           { mb.ev[i].a : i \in { j \in 1..Len(mb.ev) :
               mb.ev[j].op = "glGenTextures" /\ mb.ev[j].b = 1 } }
      /\ IF Propagates(mb.threw)
           THEN /\ gl' = mb.gl
                /\ last' = [op |-> "Show", t |-> t, fd |-> fd, info |-> info,
                            result |-> "throw", ev |-> mb.ev]
                /\ UNCHANGED << last_fd_, shown, released >>
           ELSE /\ gl' = g2
                /\ last_fd_' = IF ContinuesAfterSwap(swapped) THEN NextLastFd(last_fd_, fd)
                                                             ELSE last_fd_
                /\ last' = [op |-> "Show", t |-> t, fd |-> fd, info |-> info,
                            result |-> "ok",
                            ev |-> mb.ev \o evVideo \o evOverlay \o evSwap \o evRel]
                /\ shown' = Append(shown, fd)
                /\ released' = released \o rel
      /\ UNCHANGED << overlay_present_, ctx_destroyed, destroyed, prior, overlay_req,
                      discarded >>

\* ------------------------------------------------------------ SetOverlay
\* EglPreview::SetOverlay(buf, width, height) called on thread t; buf = 0 is
\* the null pointer, any other value identifies the pixel payload.
SetOverlay(t, buf, width, height) ==
  LET mc == MakeCurrentOk(ctx_owner, t)
      owner == IF mc THEN t ELSE ctx_owner
      cur == Current(owner, t)
      g1 == IF cur THEN TexImage2D(BindTexture(gl, "2d", overlay_texture_), buf, width, height)
                   ELSE gl
      g2 == IF cur THEN BindTexture(g1, "2d", 0) ELSE g1
  IN  /\ ~destroyed
      /\ calls < MaxCalls
      /\ calls' = calls + 1
      /\ UNCHANGED gstVars
      /\ overlay_present_' = OverlayFlag(buf)
      /\ overlay_req' = [pix |-> buf, w |-> width, h |-> height]
      /\ IF buf = 0
           THEN /\ last' = [op |-> "SetOverlay", t |-> t, fd |-> NoFd, info |-> NoInfo,
                            result |-> "ok", ev |-> << >>]
                /\ UNCHANGED << ctx_owner, gl >>
           ELSE /\ ctx_owner' = owner
                /\ gl' = g2
                /\ last' = [op |-> "SetOverlay", t |-> t, fd |-> NoFd, info |-> NoInfo,
                            result |-> "ok",
                            ev |-> << Ev("eglMakeCurrent", cur, IF mc THEN 1 ELSE 0, 0, 0),
                                      Ev("glBindTexture", cur, overlay_texture_, 1, 0),
                                      Ev("glTexImage2D", cur, buf, width, height),
                                      Ev("glBindTexture", cur, 0, 1, 0) >>]
      /\ UNCHANGED << buffers_, last_fd_, first_time_, overlay_texture_, verts_,
                      gl_setup_verts, ctx_destroyed,
                      destroyed, shown, released, prior, attempted, discarded,
                      overlay_made >>

\* ----------------------------------------------------------------- Reset
\* the keys of buffers_ in map order
RECURSIVE KeysInOrder(_)
KeysInOrder(S) ==
  IF S = {} THEN << >>
  ELSE LET k == CHOOSE x \in S : \A y \in S : x <= y
       IN  << k >> \o KeysInOrder(S \ {k})

\* for (auto &it : buffers_) glDeleteTextures(1, &it.second.texture);
RECURSIVE DeleteAll(_, _, _, _)
DeleteAll(g, bufs, keys, cur) ==
  IF keys = << >> THEN [gl |-> g, ev |-> << >>]
  ELSE LET n == bufs[Head(keys)].texture
           rest == DeleteAll(IF cur THEN DeleteTexture(g, n) ELSE g, bufs, Tail(keys), cur)
       IN  [gl |-> rest.gl, ev |-> << Ev("glDeleteTextures", cur, n, 0, 0) >> \o rest.ev]

\* the body of EglPreview::Reset() run on thread t
ResetBody(t) ==
  LET cur == Current(ctx_owner, t)
      d == DeleteAll(gl, buffers_, KeysInOrder(DOMAIN buffers_), cur)
  IN  [gl |-> d.gl,
       owner |-> IF ctx_owner = t THEN NoThread ELSE ctx_owner,
       ev |-> d.ev \o << Ev("eglMakeCurrent", cur, 1, 0, 0) >>]

Reset ==
  LET t == DisplayThread
      r == ResetBody(t)
  IN  /\ ~destroyed
      /\ calls < MaxCalls
      /\ calls' = calls + 1
      /\ UNCHANGED gstVars
      /\ gl' = r.gl
      /\ buffers_' = ClearedBuffers(buffers_)
      /\ last_fd_' = ResetLastFd(last_fd_)
      /\ ctx_owner' = r.owner
      /\ first_time_' = TRUE
      /\ last' = [op |-> "Reset", t |-> t, fd |-> NoFd, info |-> NoInfo,
                  result |-> "ok", ev |-> r.ev]
      /\ shown' = << >>
      /\ released' = << >>
      /\ prior' = prior \cup { h \in DOMAIN buffers_ : buffers_[h].fd # NoFd }
      /\ attempted' = {}
      /\ discarded' = last_fd_
      /\ UNCHANGED << overlay_present_, overlay_texture_, verts_, gl_setup_verts,
                      ctx_destroyed, destroyed, overlay_req, overlay_made >>

\* ------------------------------------------------------------ destructor
\* eglDestroyContext frees the context's objects once it is current nowhere
ContextFreed(g) ==
  [g EXCEPT !.textures = [n \in Names |-> IF n = 0 THEN Blank2D ELSE Unused],
            !.bound2d = 0, !.boundExt = 0, !.reserved = {}]

\* EglPreview::~EglPreview() run on thread t:
\* Reset(); eglDestroyContext(...); glDeleteTextures(1, &overlay_texture_);
Destructor(t) ==
  LET r == ResetBody(t)
      gone == r.owner = NoThread
      cur == r.owner = t /\ ~gone
      g1 == IF gone THEN ContextFreed(r.gl) ELSE r.gl
      g2 == IF cur THEN DeleteTexture(g1, overlay_texture_) ELSE g1
  IN  /\ ~destroyed
      /\ calls < MaxCalls
      /\ calls' = calls + 1
      /\ UNCHANGED gstVars
      /\ destroyed' = TRUE
      /\ gl' = g2
      /\ buffers_' = ClearedBuffers(buffers_)
      /\ last_fd_' = ResetLastFd(last_fd_)
      /\ ctx_owner' = r.owner
      /\ ctx_destroyed' = gone
      /\ first_time_' = TRUE
      /\ last' = [op |-> "~EglPreview", t |-> t, fd |-> NoFd, info |-> NoInfo,
                  result |-> "ok",
                  ev |-> r.ev \o << Ev("eglDestroyContext", cur, IF gone THEN 1 ELSE 0, 0, 0),
                                    Ev("glDeleteTextures", cur, overlay_texture_, 1, 0) >>]
      /\ shown' = << >>
      /\ released' = << >>
      /\ prior' = prior \cup { h \in DOMAIN buffers_ : buffers_[h].fd # NoFd }
      /\ attempted' = {}
      /\ discarded' = last_fd_
      /\ UNCHANGED << overlay_present_, overlay_texture_, verts_, gl_setup_verts,
                      overlay_req, overlay_made >>

\* ----------------------------------------------------------- the machine
\* the state after EglPreview::EglPreview(): makeWindow has made the context
\* current for the texture-size query and released it again
Init ==
  /\ buffers_ = << >>
  /\ last_fd_ = NoFd
  /\ first_time_ = TRUE
  /\ overlay_present_ = FALSE
  /\ overlay_texture_ \in Garbage
  /\ verts_ = NoVerts
  /\ gl_setup_verts = NoVerts
  /\ ctx_owner = NoThread
  /\ ctx_destroyed = FALSE
  /\ gl = [textures |-> [n \in Names |-> IF n = 0 THEN Blank2D ELSE Unused],
           bound2d |-> 0, boundExt |-> 0, reserved |-> {}]
  /\ destroyed = FALSE
  /\ last = [op |-> "EglPreview", t |-> "main", fd |-> NoFd, info |-> NoInfo,
             result |-> "ok",
             ev |-> << Ev("eglMakeCurrent", TRUE, 1, 0, 0),
                       Ev("glGetIntegerv", TRUE, 0, 0, 0),
                       Ev("eglMakeCurrent", FALSE, 1, 0, 0) >>]
  /\ shown = << >>
  /\ released = << >>
  /\ prior = {}
  /\ overlay_req = [pix |-> -1, w |-> 0, h |-> 0]
  /\ attempted = {}
  /\ discarded = NoFd
  /\ overlay_made = {}
  /\ calls = 0
  /\ gst_queue = << >>
  /\ gst_held = 0
  /\ gst_last = [mem |-> << >>, result |-> "none", ev |-> << >>]
  /\ gst_calls = 0

\* the external calls Show(fd, ...) reaches in the current state
FailuresAt(fd) ==
  IF IsRegistered(buffers_, fd) THEN {"none"}
  ELSE IF first_time_ THEN Failures
  ELSE {"none", "eglCreateImageKHR"}

\* a Buffer is default-constructed only for a key new to buffers_
GarbageAt(fd) == IF fd \in DOMAIN buffers_ THEN {0} ELSE Garbage

ShowStep ==
  \E fd \in Handles, info \in Infos :
    \E fail \in FailuresAt(fd), swap_ok \in BOOLEAN, garb \in GarbageAt(fd) :
      Show(fd, info, fail, swap_ok, garb)

SetOverlayStep ==
  \E t \in CallerThreads :
    \/ SetOverlay(t, 0, 0, 0)
    \/ \E buf \in Pixels, sz \in OverlaySizes : SetOverlay(t, buf, sz[1], sz[2])

DestructorStep == \E t \in CallerThreads : Destructor(t)

Next == ShowStep \/ SetOverlayStep \/ Reset \/ DestructorStep

Spec == Init /\ [][Next]_vars

\* ------------------------------------------------- the import of one frame
\* values of std::optional<libcamera::ColorSpace>; "none" is std::nullopt
ColourSpaces == {"none", "Raw", "Srgb", "Sycc", "Smpte170m", "Rec709", "Rec2020"}

\* StreamInfo values of every small stride and height, odd ones included, and
\* every colour space
ImportInfos ==
  { [width |-> s, height |-> h, stride |-> s, colour_space |-> cs] :
      s \in 1..MaxDim, h \in 1..MaxDim, cs \in ColourSpaces }

\* the first Show of an EglPreview, of any such frame
ImportStep ==
  \E fd \in Handles, info \in ImportInfos, fail \in {"none", "eglCreateImageKHR"} :
    calls = 0 /\ Show(fd, info, fail, TRUE, 0)

SpecImport == Init /\ [][ImportStep]_vars

\* ------------------------------------- SetOverlay called from any thread
\* SetOverlay takes no lock and checks no thread: its caller may be the
\* display thread or another one
SetOverlayAnyStep ==
  \E t \in Threads :
    \/ SetOverlay(t, 0, 0, 0)
    \/ \E buf \in Pixels, sz \in OverlaySizes : SetOverlay(t, buf, sz[1], sz[2])

NextThreads == ShowStep \/ SetOverlayAnyStep \/ Reset \/ DestructorStep

SpecThreads == Init /\ [][NextThreads]_vars

\* ---------------------------------------------- GStreamOutput::outputBuffer
Bytes == {0, 1}

\* the frames handed to outputBuffer: mem[1..size]
Mems == UNION { [1..n -> Bytes] : n \in 1..MaxSize }

\* values "push-buffer" stores in ret
FlowReturns == {"GST_FLOW_OK", "GST_FLOW_FLUSHING", "GST_FLOW_EOS"}

\* one GStreamer call of outputBuffer: its name, the payload of the buffer
\* when it is made, the buffer's reference count after it
GstEv(op, data, refs) == [op |-> op, data |-> data, refs |-> refs]

\* faulty variant: the exception is thrown before the reference is dropped
UnrefsAfterPushOkOnly(ret) == IF ret = "GST_FLOW_OK" THEN 1 ELSE 0

\* outputBuffer: gst_buffer_unref(gst_buffer) after the push, before ret is tested
UnrefsAfterPush(ret) == 1

\* appsrc takes a reference of its own to a buffer it accepts
Queued(ret) == ret = "GST_FLOW_OK"

\* GStreamOutput::outputBuffer(mem, size, ...); map_ok and ret are the outcomes
\* of gst_buffer_map and of the "push-buffer" signal.  The new buffer holds
\* no frame bytes (<< >>) until memcpy writes them.
outputBuffer(mem, map_ok, ret) ==
  LET q == IF Queued(ret) THEN 1 ELSE 0
      u == UnrefsAfterPush(ret)
      alloc == << GstEv("gst_buffer_new_allocate", << >>, 1) >>
      unrefs == [i \in 1..u |-> GstEv("gst_buffer_unref", mem, 1 + q - i)]
      pushed == alloc \o << GstEv("gst_buffer_map", << >>, 1),
                            GstEv("memcpy", mem, 1),
                            GstEv("gst_buffer_unmap", mem, 1),
                            GstEv("push-buffer", mem, 1 + q) >> \o unrefs
      unmapped == alloc \o << GstEv("gst_buffer_map", << >>, 1),
                              GstEv("gst_buffer_unref", << >>, 0) >>
  IN  /\ gst_calls < MaxFrames
      /\ gst_calls' = gst_calls + 1
      /\ IF map_ok
           THEN /\ gst_queue' = IF Queued(ret) THEN Append(gst_queue, mem) ELSE gst_queue
                /\ gst_held' = gst_held + 1 - u
                /\ gst_last' = [mem |-> mem,
                                result |-> IF ret # "GST_FLOW_OK" THEN "throw" ELSE "ok",
                                ev |-> pushed]
           ELSE /\ gst_queue' = gst_queue
                /\ gst_held' = gst_held
                /\ gst_last' = [mem |-> mem, result |-> "throw", ev |-> unmapped]
      /\ UNCHANGED << buffers_, last_fd_, first_time_, overlay_present_, overlay_texture_,
                      verts_, gl_setup_verts, ctx_owner, ctx_destroyed, gl, destroyed,
                      last, shown, released, prior, overlay_req, attempted, discarded,
                      overlay_made, calls >>

outputBufferStep ==
  \E mem \in Mems, map_ok \in BOOLEAN, ret \in FlowReturns : outputBuffer(mem, map_ok, ret)

SpecGStream == Init /\ [][outputBufferStep]_vars

\* ------------------------------------------------------------ properties
\* positions in ev of the calls named op
Idx(ev, op) == { i \in 1..Len(ev) : ev[i].op = op }

\* the last call was a Show that returned normally
ShowReturned == last.op = "Show" /\ last.result = "ok"

\* C1: with no Reset in between, the i-th completed present's handle is handed
\* to done_callback_ exactly once, by the (i+1)-th completed present and after
\* that present's eglSwapBuffers; the handle of the latest present has not been
\* released (n presents give n-1 releases, in presentation order).
C1_OneFrameDelay ==
  /\ released = IF shown = << >> THEN << >> ELSE SubSeq(shown, 1, Len(shown) - 1)
  /\ shown # << >> => last_fd_ = shown[Len(shown)]
  /\ ShowReturned =>
       /\ Cardinality(Idx(last.ev, "eglSwapBuffers")) = 1
       /\ Cardinality(Idx(last.ev, "done_callback_")) = IF Len(shown) >= 2 THEN 1 ELSE 0
       /\ \A r \in Idx(last.ev, "done_callback_") :
            /\ last.ev[r].a = shown[Len(shown) - 1]
            /\ \A w \in Idx(last.ev, "eglSwapBuffers") : w < r

C1_Witness ==
  /\ ShowReturned
  /\ Len(shown) = 3
  /\ released = << shown[1], shown[2] >>
  /\ shown[1] = 0
  /\ shown[2] # shown[1]

\* C2 as stated: a completed present never calls done_callback_ for the handle
\* it presents, nor for the handle in last_fd_ when it returns.
C2_Original ==
  ShowReturned =>
    \A r \in Idx(last.ev, "done_callback_") :
      last.ev[r].a # last.fd /\ last.ev[r].a # last_fd_

\* C2 amended: a completed present calls done_callback_ for the handle it
\* presents (the handle left in last_fd_) only when the previous completed
\* present was of that same handle; otherwise the released handle differs from
\* the presented one.
C2_ReleaseOnlyOfPrevious ==
  ShowReturned =>
    \A r \in Idx(last.ev, "done_callback_") :
      (last.ev[r].a = last.fd \/ last.ev[r].a = last_fd_)
        => (Len(shown) >= 2 /\ shown[Len(shown) - 1] = last.fd)

C2_Witness ==
  /\ ShowReturned
  /\ Len(shown) >= 2
  /\ shown[Len(shown) - 1] = last.fd
  /\ \E r \in Idx(last.ev, "done_callback_") : last.ev[r].a = last.fd

\* C3: Reset calls done_callback_ for no handle and empties last_fd_, so the
\* handle it held is dropped: the first present completed after the Reset
\* releases nothing.
C3_ResetDiscards ==
  /\ last.op = "Reset" =>
       /\ Idx(last.ev, "done_callback_") = {}
       /\ last_fd_ = NoFd
  /\ (ShowReturned /\ Len(shown) = 1) => Idx(last.ev, "done_callback_") = {}

C3_Witness ==
  /\ ShowReturned
  /\ Len(shown) = 1
  /\ discarded # NoFd
  /\ Idx(last.ev, "done_callback_") = {}

\* the calls of a Show that import a frame
ImportCalls(ev) ==
  Idx(ev, "eglCreateImageKHR") \cup Idx(ev, "glGenTextures")
    \cup Idx(ev, "glEGLImageTargetTexture2DOES")

\* C4: a Show of a handle whose entry already has fd set (no Reset since)
\* leaves buffers_ as it is - no entry added, texture and info of the entry
\* unchanged whatever info is passed -, issues no import call and binds the
\* entry's texture for the draw.
C4_NoReimport ==
  [][ (last'.op = "Show" /\ last'.fd \in DOMAIN buffers_ /\ buffers_[last'.fd].fd # NoFd)
        => /\ buffers_' = buffers_
           /\ ImportCalls(last'.ev) = {}
           /\ last'.result = "ok"
           /\ \E i \in Idx(last'.ev, "glBindTexture") :
                /\ last'.ev[i].b = 0
                /\ last'.ev[i].a = buffers_[last'.fd].texture
                /\ \E d \in Idx(last'.ev, "drawVideo") : d = i + 1 ]_vars

C4_Witness ==
  /\ ShowReturned
  /\ ImportCalls(last.ev) = {}
  /\ last.fd = 0
  /\ buffers_[last.fd].info # last.info
  /\ Cardinality(DOMAIN buffers_) = 1

\* C5: the first Show after a Reset of a handle that was registered when a
\* Reset ran starts with makeBuffer (first-time setup or the import); when it
\* returns, the entry's texture is one glGenTextures returned in this call,
\* the frame was imported into it, it is the texture the video quad samples,
\* and it was no live texture before the call.
C5_FreshAfterReset ==
  [][ (last'.op = "Show" /\ last'.fd \in prior /\ last'.fd \notin attempted)
        => /\ last'.ev # << >>
           /\ last'.ev[1].op \in {"eglMakeCurrent", "eglCreateImageKHR"}
           /\ last'.result = "ok" =>
                \E n \in Names \ {0} :
                  /\ gl.textures[n].kind = "unused"
                  /\ buffers_'[last'.fd].texture = n
                  /\ \E i \in Idx(last'.ev, "glGenTextures") :
                       last'.ev[i].a = n /\ last'.ev[i].b = 0
                  /\ \E i \in Idx(last'.ev, "glEGLImageTargetTexture2DOES") :
                       last'.ev[i].a = n /\ last'.ev[i].b = last'.fd
                  /\ \E i \in Idx(last'.ev, "drawVideo") :
                       last'.ev[i].a = n /\ last'.ev[i].b = last'.fd ]_vars

C5_Witness ==
  /\ ShowReturned
  /\ last.fd \in prior
  /\ attempted = {last.fd}
  /\ Idx(last.ev, "glEGLImageTargetTexture2DOES") # {}

\* C6 as stated (first part): the live imported textures are as many as the
\* handles registered since the last Reset.
C6_Original ==
  ~destroyed =>
    Cardinality(ImportedTextures(gl))
      = Cardinality({ h \in DOMAIN buffers_ : buffers_[h].fd # NoFd })

\* an external call of makeBuffer failed in the call
Failed(ev) ==
  \E i \in 1..Len(ev) :
    \/ ev[i].op \in {"eglMakeCurrent", "gl_setup", "setup_overlay"} /\ ev[i].a = 0
    \/ ev[i].op = "eglCreateImageKHR" /\ ev[i].b = 0

\* C7: a Show in which eglMakeCurrent, the shader build of gl_setup or
\* setup_overlay, or eglCreateImageKHR fails ends with the exception, draws
\* and swaps nothing, calls done_callback_ for no handle and leaves last_fd_
\* as it was.
C7_FailureLeavesSlot ==
  [][ (last'.op = "Show" /\ Failed(last'.ev))
        => /\ last'.result = "throw"
           /\ Idx(last'.ev, "eglSwapBuffers") = {}
           /\ Idx(last'.ev, "drawVideo") = {}
           /\ Idx(last'.ev, "done_callback_") = {}
           /\ last_fd_' = last_fd_
           /\ released' = released ]_vars

C7_Witness ==
  /\ last.op = "Show"
  /\ last.result = "throw"
  /\ \E i \in Idx(last.ev, "eglCreateImageKHR") : last.ev[i].b = 0
  /\ last_fd_ # NoFd

\* C8: a Show that reaches eglSwapBuffers returns normally whether the swap
\* succeeds or not, calls done_callback_ for the handle last_fd_ held before
\* the call (for none when it held none), after the swap, and stores its own
\* handle in last_fd_.
C8_SwapFailureIgnored ==
  [][ (last'.op = "Show" /\ Idx(last'.ev, "eglSwapBuffers") # {})
        => /\ last'.result = "ok"
           /\ last_fd_' = last'.fd
           /\ \A r \in Idx(last'.ev, "done_callback_") : last'.ev[r].a = last_fd_
           /\ Cardinality(Idx(last'.ev, "done_callback_")) = IF last_fd_ >= 0 THEN 1 ELSE 0 ]_vars

C8_Witness ==
  /\ ShowReturned
  /\ \E w \in Idx(last.ev, "eglSwapBuffers") : last.ev[w].a = 0
  /\ Idx(last.ev, "done_callback_") # {}
  /\ last_fd_ = last.fd

\* the calls of a Show from glClear on
RECURSIVE FromClear(_)
FromClear(ev) ==
  IF ev = << >> \/ Head(ev).op = "glClear" THEN ev ELSE FromClear(Tail(ev))

\* the names of the calls in ev
OpNames(ev) == [i \in 1..Len(ev) |-> ev[i].op]

\* the draw calls of a Show that composites no overlay
VideoOnly == << "glClear", "glBindTexture", "drawVideo", "eglSwapBuffers" >>

\* C9: overlay_present_ is set exactly when the latest SetOverlay passed
\* pixels; a completed Show draws the overlay quad exactly when it is set,
\* after the video quad and before the swap; when the latest SetOverlay
\* passed none, or there was none, the Show issues from glClear on exactly the
\* video-only calls (and the release callback).
C9_OverlayOnlyWhenPresent ==
  /\ overlay_present_ = (overlay_req.pix > 0)
  /\ ShowReturned =>
       /\ Cardinality(Idx(last.ev, "drawOverlay")) = IF overlay_present_ THEN 1 ELSE 0
       /\ \A o \in Idx(last.ev, "drawOverlay") :
            /\ \E v \in Idx(last.ev, "drawVideo") : v < o
            /\ \A w \in Idx(last.ev, "eglSwapBuffers") : o < w
       /\ overlay_req.pix <= 0 =>
            \E k \in {0, 1} :
              /\ Len(FromClear(last.ev)) = Len(VideoOnly) + k
              /\ SubSeq(OpNames(FromClear(last.ev)), 1, Len(VideoOnly)) = VideoOnly
              /\ k = 1 => FromClear(last.ev)[Len(VideoOnly) + 1].op = "done_callback_"

C9_Witness ==
  /\ ShowReturned
  /\ overlay_req.pix = 0
  /\ \E n \in Names : gl.textures[n].pix \in Pixels
  /\ Idx(last.ev, "drawOverlay") = {}

\* C10 as stated: a completed Show that follows SetOverlay(pixels, w, h), with
\* no other SetOverlay in between, draws the overlay quad from a texture
\* holding those pixels at that size.
C10_Original ==
  (ShowReturned /\ overlay_req.pix > 0) =>
    \E o \in Idx(last.ev, "drawOverlay") :
      /\ last.ev[o].a = overlay_req.pix
      /\ last.ev[o].b = overlay_req.w
      /\ last.ev[o].c = overlay_req.h

\* C11 as stated: after Reset every part of the presentation state has the
\* value the constructor gives it: buffers_ empty, last_fd_ none, first_time_
\* set, the context current nowhere and overlay_present_ false.
C11_Original ==
  last.op = "Reset" =>
    /\ buffers_ = << >>
    /\ last_fd_ = NoFd
    /\ first_time_
    /\ ctx_owner = NoThread
    /\ ~overlay_present_

\* C12: a Show of the handle the previous completed Show presented (no Reset
\* in between) returns normally, is a cache hit - no import call, buffers_
\* unchanged -, calls done_callback_ exactly once, for that same handle (the
\* release of its first presentation) and after the swap, and leaves the
\* handle in last_fd_.
C12_SameHandleTwice ==
  [][ (last'.op = "Show" /\ shown # << >> /\ shown[Len(shown)] = last'.fd)
        => /\ last'.result = "ok"
           /\ ImportCalls(last'.ev) = {}
           /\ buffers_' = buffers_
           /\ Cardinality(Idx(last'.ev, "done_callback_")) = 1
           /\ \A r \in Idx(last'.ev, "done_callback_") :
                /\ last'.ev[r].a = last'.fd
                /\ \E w \in Idx(last'.ev, "eglSwapBuffers") : w < r
           /\ released' = Append(released, last'.fd)
           /\ last_fd_' = last'.fd ]_vars

C12_Witness ==
  /\ ShowReturned
  /\ Len(shown) = 2
  /\ shown[1] = shown[2]
  /\ released = << shown[1] >>
  /\ last_fd_ = shown[2]
  /\ ImportCalls(last.ev) = {}

\* the calls of a Show that belong to the first-time setup
SetupCalls(ev) == Idx(ev, "gl_setup") \cup Idx(ev, "setup_overlay")

\* the calls of a Show that draw or swap
DrawCalls(ev) ==
  Idx(ev, "drawVideo") \cup Idx(ev, "drawOverlay") \cup Idx(ev, "eglSwapBuffers")

\* C13: a Show made while first_time_ is set starts with the setup
\* (eglMakeCurrent, gl_setup, setup_overlay); when it returns normally it has
\* run gl_setup and setup_overlay exactly once each, before any draw or swap,
\* and first_time_ is clear.  A Show made while first_time_ is clear runs no
\* setup call and leaves first_time_ clear.  No Show that draws or swaps
\* leaves first_time_ set, and while first_time_ is set no handle is
\* registered (so no Show can skip makeBuffer).
C13_LazySetupOnce ==
  [][ last'.op = "Show"
        => /\ first_time_ =>
                /\ last'.ev # << >> /\ last'.ev[1].op = "eglMakeCurrent"
                /\ \A h \in DOMAIN buffers_ : buffers_[h].fd = NoFd
                /\ last'.result = "ok" =>
                     /\ Cardinality(Idx(last'.ev, "gl_setup")) = 1
                     /\ Cardinality(Idx(last'.ev, "setup_overlay")) = 1
                     /\ \A s \in SetupCalls(last'.ev) :
                          /\ last'.ev[s].a = 1
                          /\ \A d \in DrawCalls(last'.ev) : s < d
                     /\ ~first_time_'
           /\ ~first_time_ => (SetupCalls(last'.ev) = {} /\ ~first_time_')
           /\ DrawCalls(last'.ev) # {} => ~first_time_' ]_vars

C13_Witness ==
  /\ ShowReturned
  /\ SetupCalls(last.ev) # {}
  /\ prior # {}
  /\ ~first_time_

\* the live texture objects setup_overlay has created
LiveOverlayTextures == { n \in overlay_made : gl.textures[n].kind = "2d" }

\* C14 as stated (first part): of the textures setup_overlay has created, at
\* most one is live at any time.
C14_Original == Cardinality(LiveOverlayTextures) <= 1

\* C15 as stated: a completed Show that ran the first-time setup draws the
\* video quad with the extents the aspect-fit rule gives for its own frame
\* and the window: full extent on the axis with the larger frame/window
\* ratio, smaller ratio / larger ratio on the other.
C15_Original ==
  (ShowReturned /\ SetupCalls(last.ev) # {}) =>
    \A i \in Idx(last.ev, "glVertexAttribPointer") :
      LET W == Quotient(last.info.width, width_)
          H == Quotient(last.info.height, height_)
      IN  /\ last.ev[i].a = IF W >= H THEN Scale ELSE Quotient(W, H)
          /\ last.ev[i].b = IF H >= W THEN Scale ELSE Quotient(H, W)

\* C16: the colour-space hints of every eglCreateImageKHR call are those of
\* the table: BT.601 narrow for an absent colour space and for Smpte170m,
\* BT.601 full for Sycc, BT.709 narrow for Rec709, BT.601 narrow for every
\* other colour space; and whatever the colour space, a Show whose image is
\* created returns normally.
C16_ColourSpaceTable ==
  \A i \in Idx(last.ev, "eglCreateImageKHR") :
    LET cs == last.info.colour_space
        hints == << last.ev[i].c.encoding, last.ev[i].c.range >>
    IN  /\ cs \in {"none", "Smpte170m"} =>
             hints = << "EGL_ITU_REC601_EXT", "EGL_YUV_NARROW_RANGE_EXT" >>
        /\ cs = "Sycc" => hints = << "EGL_ITU_REC601_EXT", "EGL_YUV_FULL_RANGE_EXT" >>
        /\ cs = "Rec709" => hints = << "EGL_ITU_REC709_EXT", "EGL_YUV_NARROW_RANGE_EXT" >>
        /\ cs \notin {"none", "Smpte170m", "Sycc", "Rec709"} =>
             hints = << "EGL_ITU_REC601_EXT", "EGL_YUV_NARROW_RANGE_EXT" >>
        /\ last.ev[i].b = 1 => last.result = "ok"

C16_Witness ==
  /\ ShowReturned
  /\ last.info.colour_space = "Rec2020"
  /\ \E i \in Idx(last.ev, "eglCreateImageKHR") :
       last.ev[i].b = 1 /\ last.ev[i].c.encoding = "EGL_ITU_REC601_EXT"

\* C17 as stated: whenever a Show or a SetOverlay issues the eglMakeCurrent
\* that acquires the context, no thread other than the caller holds it.
C17_Original ==
  [][ (last'.op \in {"Show", "SetOverlay"} /\ Idx(last'.ev, "eglMakeCurrent") # {})
        => ctx_owner \in {NoThread, last'.t} ]_vars

\* C18: in every eglCreateImageKHR call the three planes carry the handle
\* being imported; the luma plane is at offset 0 with pitch stride, the first
\* chroma plane at offset stride*height with pitch stride/2 (it starts where
\* the height rows of luma end), the second chroma plane at offset
\* stride*height + (stride/2)*(height/2) with pitch stride/2 (it starts where
\* the height/2 rows of the first end); divisions are integer divisions.
\* Stated for strides and heights whose products fit the 32-bit attributes.
C18_PlaneLayout ==
  \A i \in Idx(last.ev, "eglCreateImageKHR") :
    LET p == last.ev[i].c.plane
        stride == last.info.stride
        height == last.info.height
    IN  /\ Len(p) = 3
        /\ \A k \in 1..3 : p[k].fd = last.fd
        /\ p[1].offset = 0 /\ p[1].pitch = stride
        /\ p[2].offset = stride * height /\ p[2].pitch = stride \div 2
        /\ p[3].offset = stride * height + (stride \div 2) * (height \div 2)
        /\ p[3].pitch = stride \div 2
        /\ p[2].offset = p[1].offset + p[1].pitch * height
        /\ p[3].offset = p[2].offset + p[2].pitch * (height \div 2)

C18_Witness ==
  /\ ShowReturned
  /\ last.info.stride = 3
  /\ last.info.height = 3
  /\ \E i \in Idx(last.ev, "eglCreateImageKHR") : last.ev[i].c.plane[3].offset = 10

\* C19 as stated: every entry of buffers_ that Show treats as a cache hit (its
\* fd is set) names a live texture into which the frame of its handle was
\* imported.
C19_Original ==
  \A h \in DOMAIN buffers_ :
    buffers_[h].fd # NoFd =>
      /\ buffers_[h].texture \in ImportedTextures(gl)
      /\ gl.textures[buffers_[h].texture].fd = h

\* the calls that need the rendering context current on the calling thread
GpuOps ==
  { "glGetIntegerv", "gl_setup", "setup_overlay", "glGenTextures", "glBindTexture",
    "glTexImage2D", "glEGLImageTargetTexture2DOES", "glUseProgram",
    "glVertexAttribPointer", "glClear", "drawVideo", "drawOverlay", "glDeleteTextures" }

\* C20 as stated: every GL call of the constructor, Show, SetOverlay, Reset
\* and the destructor is issued while the context is current on the calling
\* thread.
C20_Original ==
  \A i \in 1..Len(last.ev) : last.ev[i].op \in GpuOps => last.ev[i].cur

\* the texture names a call binds to GL_TEXTURE_2D as the overlay texture,
\* uploads to, draws from or deletes as overlay_texture_
OverlayUses ==
  IF last.op = "SetOverlay"
    THEN { last.ev[i].a : i \in { j \in Idx(last.ev, "glBindTexture") :
             j < Len(last.ev) /\ last.ev[j + 1].op = "glTexImage2D" } }
  ELSE IF last.op = "Show"
    THEN { last.ev[i].a : i \in { j \in Idx(last.ev, "glBindTexture") :
             j < Len(last.ev) /\ last.ev[j + 1].op = "drawOverlay" } }
  ELSE IF last.op = "~EglPreview"
    THEN { last.ev[i].a : i \in { j \in Idx(last.ev, "glDeleteTextures") :
             last.ev[j].b = 1 } }
  ELSE {}

\* C21 as stated: every texture name that SetOverlay binds and uploads to,
\* that Show binds for the overlay quad, or that the destructor deletes as
\* overlay_texture_, is a name setup_overlay's glGenTextures has returned.
C21_Original == OverlayUses \subseteq overlay_made

\* positions in a GStreamOutput call's ev of the calls named op
GstIdx(op) == { i \in 1..Len(gst_last.ev) : gst_last.ev[i].op = op }

\* C22: every outputBuffer call - pushed with GST_FLOW_OK, pushed with another
\* flow status (it throws), or not mapped (it throws) - calls gst_buffer_unref
\* exactly once on the buffer it allocated, so it keeps no reference; it
\* throws exactly when the map fails or the push is not GST_FLOW_OK; and the
\* buffer is pushed at most once, after memcpy has written the frame bytes
\* and gst_buffer_unmap has run, with those bytes as its payload and before
\* the unref.
C22_UnrefOnce ==
  /\ gst_held = 0
  /\ gst_last.result # "none" =>
       /\ Cardinality(GstIdx("gst_buffer_new_allocate")) = 1
       /\ Cardinality(GstIdx("gst_buffer_unref")) = 1
       /\ Cardinality(GstIdx("push-buffer")) <= 1
       /\ gst_last.result = "ok" => GstIdx("push-buffer") # {}
       /\ GstIdx("push-buffer") = {} => gst_last.result = "throw"
       /\ \A p \in GstIdx("push-buffer") :
            /\ gst_last.ev[p].data = gst_last.mem
            /\ \E c \in GstIdx("memcpy") :
                 \E m \in GstIdx("gst_buffer_unmap") : c < m /\ m < p
            /\ \A r \in GstIdx("gst_buffer_unref") : p < r
            /\ (gst_last.result = "ok") = (gst_last.ev[p].refs = 2)

C22_Witness ==
  /\ gst_last.result = "throw"
  /\ GstIdx("push-buffer") # {}
  /\ Cardinality(GstIdx("gst_buffer_unref")) = 1
  /\ gst_calls = 2
  /\ Len(gst_queue) = 1

====
